---- MODULE Spec2Model ----
(***************************************************************************)
(* A model of python-genesys: the GENESYS power-supply protocol engine     *)
(* (genesys/protocol.py) and its two transports (genesys/client.py).       *)
(*                                                                         *)
(* Bytes and text are sequences of one-character strings; "\r" is the      *)
(* frame delimiter.  Time is counted in tenths of a second.                *)
(***************************************************************************)
EXTENDS Integers, Sequences, FiniteSets, TLC

(***************************************************************************)
(* Bounds of the model.                                                    *)
(***************************************************************************)
\* Longest response generated exhaustively over GenAlphabet.
MaxLen == 3
\* Longest time measured between two exchanges (tenths of a second).
MaxTime == 3
\* Exchanges made on one TCP connection.
MaxExchanges == 2
\* Longest answer of the device to one frame, in bytes.
MaxAnswer == 2
\* The timeout a GenesysTcpClient is constructed with (tenths of a second).
Timeout == 2

(***************************************************************************)
(* Characters.                                                             *)
(***************************************************************************)
CR == "\r"
SP == " "
\* A byte above 0x7f, which bytes.decode("ascii") cannot decode.
HighByte == "<80>"

DigitChars == <<"0", "1", "2", "3", "4", "5", "6", "7", "8", "9">>
Digits == {DigitChars[i] : i \in 1..10}
LowerChars == <<"a", "b", "c", "d", "e", "f", "g", "h", "i", "j", "k", "l", "m",
                "n", "o", "p", "q", "r", "s", "t", "u", "v", "w", "x", "y", "z">>
UpperChars == <<"A", "B", "C", "D", "E", "F", "G", "H", "I", "J", "K", "L", "M",
                "N", "O", "P", "Q", "R", "S", "T", "U", "V", "W", "X", "Y", "Z">>
LowerSet == {LowerChars[i] : i \in 1..26}
UpperSet == {UpperChars[i] : i \in 1..26}
\* The ASCII whitespace int() and float() strip from both ends.
Whitespace == {" ", "\t", "\n", "\r"}

IndexIn(c, chars) == CHOOSE i \in 1..Len(chars) : chars[i] = c

UpperChar(c) == IF c \in LowerSet THEN UpperChars[IndexIn(c, LowerChars)] ELSE c
LowerChar(c) == IF c \in UpperSet THEN LowerChars[IndexIn(c, UpperChars)] ELSE c
\* str.upper() and str.lower().
Upper(s) == [i \in 1..Len(s) |-> UpperChar(s[i])]
Lower(s) == [i \in 1..Len(s) |-> LowerChar(s[i])]

(***************************************************************************)
(* Python values: None, int n, and a float m / 10^e (e decimals, m not a   *)
(* multiple of 10 unless e = 0).                                           *)
(***************************************************************************)
None == [t |-> "none", m |-> 0, e |-> 0]
PyInt(n) == [t |-> "int", m |-> n, e |-> 0]
PyFloat(m, e) == [t |-> "float", m |-> m, e |-> e]
PyInf(sign) == [t |-> "inf", m |-> sign, e |-> 0]
PyNan == [t |-> "nan", m |-> 0, e |-> 0]

RECURSIVE Pow10(_)
Pow10(e) == IF e = 0 THEN 1 ELSE 10 * Pow10(e - 1)

RECURSIVE NatStr(_)
\* The decimal digits of a natural number.
NatStr(n) == IF n < 10 THEN <<DigitChars[n + 1]>>
             ELSE NatStr(n \div 10) \o <<DigitChars[(n % 10) + 1]>>

IntStr(n) == IF n < 0 THEN <<"-">> \o NatStr(-n) ELSE NatStr(n)

RECURSIVE PadStr(_, _)
\* The digits of n, zero-padded on the left to width w.
PadStr(n, w) == IF w = 0 THEN <<>>
                ELSE PadStr(n \div 10, w - 1) \o <<DigitChars[(n % 10) + 1]>>

\* repr() of a float m / 10^e in the range where Python prints no exponent.
FloatStr(m, e) ==
    LET a == IF m < 0 THEN -m ELSE m
        sign == IF m < 0 THEN <<"-">> ELSE <<>>
    IN  IF e = 0 THEN sign \o NatStr(a) \o <<".", "0">>
        ELSE sign \o NatStr(a \div Pow10(e)) \o <<".">> \o PadStr(a % Pow10(e), e)

\* f"{value}" for the values the catalog's setters are given.
PyFormat(value) ==
    IF value.t = "int" THEN IntStr(value.m) ELSE FloatStr(value.m, value.e)

(***************************************************************************)
(* Protocol._make_packet and the frame _send builds.                       *)
(***************************************************************************)
MakePacketTruthy(command, value) ==
    LET msg == IF value = None \/ value.m = 0 THEN <<>> ELSE <<SP>> \o PyFormat(value)
    IN  command \o msg \o <<CR>>

MakePacket(command, value) ==
    LET msg == IF value = None THEN <<>> ELSE <<SP>> \o PyFormat(value)
    IN  command \o msg \o <<CR>>

(***************************************************************************)
(* Python's int() and float() on bytes and text.  A parse is a record      *)
(* [ok, v]: ok is FALSE where Python raises ValueError.                    *)
(***************************************************************************)
SetMin(S) == CHOOSE x \in S : \A y \in S : x <= y
SetMax(S) == CHOOSE x \in S : \A y \in S : x >= y

\* Leading and trailing whitespace removed.
Strip(s) ==
    LET keep == {i \in 1..Len(s) : s[i] \notin Whitespace}
    IN  IF keep = {} THEN <<>> ELSE SubSeq(s, SetMin(keep), SetMax(keep))

HasSign(s) == s # <<>> /\ s[1] \in {"+", "-"}
Unsigned(s) == IF HasSign(s) THEN Tail(s) ELSE s
SignOf(s) == IF s # <<>> /\ s[1] = "-" THEN -1 ELSE 1

HexLetters == <<"a", "b", "c", "d", "e", "f">>
HexSet == Digits \cup {HexLetters[i] : i \in 1..6} \cup {UpperChar(HexLetters[i]) : i \in 1..6}

\* The value of one digit character.
DigitVal(c) == IF c \in Digits THEN IndexIn(c, DigitChars) - 1
               ELSE IndexIn(LowerChar(c), HexLetters) + 9

\* A digit part: digits with single underscores between them.
DigitPart(s, digitset) ==
    /\ s # <<>>
    /\ \A i \in 1..Len(s) : s[i] \in digitset \cup {"_"}
    /\ s[1] # "_" /\ s[Len(s)] # "_"
    /\ \A i \in 1..(Len(s) - 1) : ~(s[i] = "_" /\ s[i + 1] = "_")

RECURSIVE DigitsValue(_, _)
DigitsValue(s, base) ==
    IF s = <<>> THEN 0
    ELSE LET front == SubSeq(s, 1, Len(s) - 1)
             c == s[Len(s)]
         IN  IF c = "_" THEN DigitsValue(front, base)
             ELSE DigitsValue(front, base) * base + DigitVal(c)

NoParse == [ok |-> FALSE, v |-> None]

\* int(x) and int(x, 16).
ParseInt(x, base) ==
    LET s == Strip(x)
        u == Unsigned(s)
        prefixed == base = 16 /\ Len(u) >= 2 /\ u[1] = "0" /\ u[2] \in {"x", "X"}
        afterPrefix == IF prefixed THEN SubSeq(u, 3, Len(u)) ELSE u
        body == IF prefixed /\ afterPrefix # <<>> /\ afterPrefix[1] = "_"
                THEN Tail(afterPrefix) ELSE afterPrefix
        digitset == IF base = 16 THEN HexSet ELSE Digits
    IN  IF DigitPart(body, digitset)
        THEN [ok |-> TRUE, v |-> PyInt(SignOf(s) * DigitsValue(body, base))]
        ELSE NoParse

RECURSIVE Normalize(_, _)
\* m / 10^e with the trailing zero decimals dropped.
Normalize(m, e) == IF e > 0 /\ m % 10 = 0 THEN Normalize(m \div 10, e - 1)
                   ELSE PyFloat(m, e)

WithoutUnderscores(s) == SelectSeq(s, LAMBDA c : c # "_")

FirstIndex(s, c) ==
    LET at == {i \in 1..Len(s) : s[i] = c}
    IN  IF at = {} THEN 0 ELSE SetMin(at)

\* float(x).
ParseFloat(x) ==
    LET s == Strip(x)
        sign == SignOf(s)
        u == Lower(Unsigned(s))
        ePos == FirstIndex(u, "e")
        mant == IF ePos = 0 THEN u ELSE SubSeq(u, 1, ePos - 1)
        expo == IF ePos = 0 THEN <<>> ELSE SubSeq(u, ePos + 1, Len(u))
        expoOk == ePos = 0 \/ DigitPart(Unsigned(expo), Digits)
        expoVal == IF ePos = 0 \/ ~expoOk THEN 0
                   ELSE SignOf(expo) * DigitsValue(Unsigned(expo), 10)
        dot == FirstIndex(mant, ".")
        ip == IF dot = 0 THEN mant ELSE SubSeq(mant, 1, dot - 1)
        fp == IF dot = 0 THEN <<>> ELSE SubSeq(mant, dot + 1, Len(mant))
        mantOk == IF dot = 0 THEN DigitPart(ip, Digits)
                  ELSE /\ ip = <<>> \/ DigitPart(ip, Digits)
                       /\ fp = <<>> \/ DigitPart(fp, Digits)
                       /\ ~(ip = <<>> /\ fp = <<>>)
        digits == WithoutUnderscores(ip) \o WithoutUnderscores(fp)
        decimals == Len(WithoutUnderscores(fp)) - expoVal
        m == sign * DigitsValue(digits, 10)
    IN  IF u \in {<<"i", "n", "f">>, <<"i", "n", "f", "i", "n", "i", "t", "y">>}
        THEN [ok |-> TRUE, v |-> PyInf(sign)]
        ELSE IF u = <<"n", "a", "n">> THEN [ok |-> TRUE, v |-> PyNan]
        ELSE IF mantOk /\ expoOk
        THEN [ok |-> TRUE,
              v |-> IF decimals < 0 THEN PyFloat(m * Pow10(-decimals), 0)
                    ELSE Normalize(m, decimals)]
        ELSE NoParse

(***************************************************************************)
(* The command catalog: each public operation of Protocol with the token   *)
(* it sends, the decoder it goes through (kind), whether it takes a value, *)
(* and the set of literals _get_string is given ({} where it is given      *)
(* none).                                                                  *)
(***************************************************************************)
OK == <<"O", "K", "\r">>
RemoteModes == {<<"L", "O", "C", "\r">>, <<"R", "E", "M", "\r">>, <<"L", "L", "O", "\r">>}
OperationModes == {<<"C", "V", "\r">>, <<"C", "C", "\r">>, <<"O", "F", "F", "\r">>}
OnOff == {<<"O", "N", "\r">>, <<"O", "F", "F", "\r">>}

Op(name, token, kind, arg, pattern) ==
    [name |-> name, token |-> token, kind |-> kind, arg |-> arg, pattern |-> pattern]

Catalog == {
    Op("select_address", <<"A", "D", "R">>, "set", TRUE, {}),
    Op("clear_status", <<"C", "L", "S">>, "set", FALSE, {}),
    Op("reset", <<"R", "S", "T">>, "set", FALSE, {}),
    Op("set_remote_mode", <<"R", "M", "T">>, "set", TRUE, {}),
    Op("get_remote_mode", <<"R", "M", "T", "?">>, "string", FALSE, RemoteModes),
    Op("get_multi_drop", <<"M", "D", "A", "V", "?">>, "int", FALSE, {}),
    Op("get_ms_setting", <<"M", "S", "?">>, "int", FALSE, {}),
    Op("get_model_identification", <<"I", "D", "N", "?">>, "string", FALSE, {}),
    Op("get_software_version", <<"R", "E", "V", "?">>, "string", FALSE, {}),
    Op("get_serial_number", <<"S", "N", "?">>, "string", FALSE, {}),
    Op("get_test_date", <<"D", "A", "T", "E", "?">>, "string", FALSE, {}),
    Op("set_voltage", <<"P", "V">>, "set", TRUE, {}),
    Op("get_voltage", <<"P", "V", "?">>, "float", FALSE, {}),
    Op("get_voltage_actual", <<"M", "V", "?">>, "float", FALSE, {}),
    Op("set_current", <<"P", "C">>, "set", TRUE, {}),
    Op("get_current", <<"P", "C", "?">>, "float", FALSE, {}),
    Op("get_current_actual", <<"M", "C", "?">>, "float", FALSE, {}),
    Op("get_operation_mode", <<"M", "O", "D", "E", "?">>, "string", FALSE, OperationModes),
    Op("get_voltage_and_current", <<"D", "V", "C", "?">>, "string", FALSE, {}),
    Op("get_power_status", <<"S", "T", "T", "?">>, "status", FALSE, {}),
    Op("set_filter", <<"F", "I", "L", "T", "E", "R">>, "set", TRUE, {}),
    Op("get_filter", <<"F", "I", "L", "T", "E", "R", "?">>, "int", FALSE, {}),
    Op("set_output", <<"O", "U", "T">>, "set", TRUE, {}),
    Op("get_output", <<"O", "U", "T", "?">>, "string", FALSE, OnOff),
    Op("set_foldback_protection", <<"F", "L", "D">>, "set", TRUE, {}),
    Op("get_foldback_protection", <<"F", "L", "D", "?">>, "string", FALSE, OnOff),
    Op("set_foldback_delay", <<"F", "B", "D">>, "set", TRUE, {}),
    Op("get_foldback_delay", <<"F", "B", "D", "?">>, "int", FALSE, {}),
    Op("reset_foldback_delay", <<"F", "B", "D", "R", "S", "T">>, "set", FALSE, {}),
    Op("set_over_voltage_protection_level", <<"O", "V", "P">>, "set", TRUE, {}),
    Op("get_over_voltage_protection_level", <<"O", "V", "P", "?">>, "float", FALSE, {}),
    Op("set_over_voltage_protection_maximum", <<"O", "V", "M">>, "set", FALSE, {}),
    Op("set_under_voltage_limit", <<"U", "V", "L">>, "set", TRUE, {}),
    Op("get_under_voltage_limit", <<"U", "V", "L", "?">>, "float", FALSE, {}),
    Op("set_autorestart_mode", <<"A", "S", "T">>, "set", TRUE, {}),
    Op("get_autorestart_mode", <<"A", "S", "T", "?">>, "string", FALSE, OnOff),
    Op("save_settings", <<"S", "A", "V">>, "set", FALSE, {}),
    Op("recall_settings", <<"R", "C", "L">>, "set", FALSE, {})
}

(***************************************************************************)
(* What an operation hands back to its caller: a returned value or a       *)
(* raised exception (exc) with its argument (arg).                         *)
(***************************************************************************)
NoOutcome == [k |-> "none", exc |-> "", val |-> None, arg |-> <<>>]
Returned(v) == [k |-> "return", exc |-> "", val |-> v, arg |-> <<>>]
Raised(exc, arg) == [k |-> "raise", exc |-> exc, val |-> None, arg |-> arg]

\* Protocol._set, after _send: the check of the acknowledgement.
SetDecodePrefix(result) ==
    IF Len(result) < 2 \/ SubSeq(result, 1, 2) # SubSeq(OK, 1, 2)
    THEN Raised("GenesysError", result)
    ELSE Returned(TRUE)

SetDecode(result) ==
    IF result # OK THEN Raised("GenesysError", result) ELSE Returned(TRUE)

\* Protocol._get_float, after _send.
GetFloatDecode(result) ==
    LET p == ParseFloat(result)
    IN  IF p.ok THEN Returned(p.v) ELSE Raised("GenesysError", result)

\* Protocol._get_int with the except clause left out.
GetIntDecodeUncaught(result) ==
    LET p == ParseInt(result, 10)
    IN  IF p.ok THEN Returned(p.v) ELSE Raised("ValueError", <<>>)

\* Protocol._get_int, after _send.
GetIntDecode(result) ==
    LET p == ParseInt(result, 10)
    IN  IF p.ok THEN Returned(p.v) ELSE Raised("GenesysError", result)

\* bytes.decode("ascii"): the same characters, or UnicodeDecodeError.
DecodeAscii(result) ==
    IF \E i \in 1..Len(result) : result[i] = HighByte
    THEN Raised("UnicodeDecodeError", <<>>)
    ELSE Returned(result)

\* Protocol._get_string comparing the stripped response with the literals.
GetStringDecodeStripped(result, pattern) ==
    IF pattern # {} /\ (Strip(result) \o <<CR>>) \notin pattern
    THEN Raised("GenesysError", result)
    ELSE DecodeAscii(result)

\* Protocol._get_string, after _send.
GetStringDecode(result, pattern) ==
    IF pattern # {} /\ result \notin pattern
    THEN Raised("GenesysError", result)
    ELSE DecodeAscii(result)

\* The characters re.sub(r"[a-z() ]*", "", text) removes.
StatusRemoved == LowerSet \cup {"(", ")", " "}

RECURSIVE Split(_, _)
\* str.split(sep) for a one-character separator.
Split(s, sep) ==
    LET at == FirstIndex(s, sep)
    IN  IF at = 0 THEN <<s>>
        ELSE <<SubSeq(s, 1, at - 1)>> \o Split(SubSeq(s, at + 1, Len(s)), sep)

StatusFields(text) ==
    Split(SelectSeq(Lower(text), LAMBDA c : c \notin StatusRemoved), ",")

\* float(status[i]) for the first four fields, int(status[i], 16) for the
\* last two; status[i] of a missing field raises IndexError.
ConvertField(status, i) ==
    IF i > Len(status) THEN [ok |-> FALSE, v |-> None, exc |-> "IndexError"]
    ELSE LET p == IF i <= 4 THEN ParseFloat(status[i]) ELSE ParseInt(status[i], 16)
         IN  [ok |-> p.ok, v |-> p.v, exc |-> "ValueError"]

\* The dict get_power_status returns: its six conversions are made in
\* order, and the first that fails raises.
StatusRecord(conv) ==
    LET bad == {i \in 1..6 : ~conv[i].ok}
    IN  IF bad = {}
        THEN Returned([MV |-> conv[1].v, PV |-> conv[2].v, MC |-> conv[3].v,
                       PC |-> conv[4].v, SR |-> conv[5].v, FR |-> conv[6].v])
        ELSE Raised(conv[SetMin(bad)].exc, <<>>)

StatusConvert(status) == StatusRecord([i \in 1..6 |-> ConvertField(status, i)])

\* Protocol.get_power_status, after _send.
StatusDecodeFrom(got) ==
    IF got.k = "raise" THEN got ELSE StatusConvert(StatusFields(got.val))

StatusDecode(result) == StatusDecodeFrom(GetStringDecode(result, {}))

\* The decoder an operation of the catalog applies to the answer of _send.
DecodeAnswer(o, result) ==
    CASE o.kind = "set" -> SetDecode(result)
      [] o.kind = "float" -> GetFloatDecode(result)
      [] o.kind = "int" -> GetIntDecode(result)
      [] o.kind = "string" -> GetStringDecode(result, o.pattern)
      [] o.kind = "status" -> StatusDecode(result)

(***************************************************************************)
(* The inputs: the values callers pass and the bytes a transport may hand  *)
(* back (whole answers of the device, answers cut short by a timeout,      *)
(* and every byte string up to MaxLen over a small alphabet).              *)
(***************************************************************************)
ArgValues == {PyInt(0), PyInt(6), PyInt(31), PyFloat(125, 1)}

GenAlphabet == {"O", "K", CR, "1"}
Generated == UNION {[1..n -> GenAlphabet] : n \in 0..MaxLen}

Prefixes(s) == {SubSeq(s, 1, n) : n \in 0..Len(s)}

RoundTripInts == {-5, 0, 7, 18, 255}
IntAnswers == {IntStr(n) \o <<CR>> : n \in RoundTripInts}
RoundTripFloats == {PyFloat(0, 0), PyFloat(10, 0), PyFloat(125, 1), PyFloat(5, 1),
                    PyFloat(-25, 1), PyFloat(4, 2)}
FloatAnswers == {FloatStr(f.m, f.e) \o <<CR>> : f \in RoundTripFloats}

\* The line the device answers STT? with.
StatusLine(mv, pv, mc, pc_, sr, fr) ==
    <<"M", "V", "(">> \o mv \o <<")", ",", "P", "V", "(">> \o pv
    \o <<")", ",", "M", "C", "(">> \o mc \o <<")", ",", "P", "C", "(">> \o pc_
    \o <<")", ",", "S", "R", "(">> \o sr \o <<")", ",", "F", "R", "(">> \o fr
    \o <<")", CR>>

HexPairs == {<<"0", "0">>, <<"3", "0">>, <<"1", "F">>, <<"0", "A">>, <<"1", "f">>,
             <<"0", "a">>, <<"F", "F">>}
V1000 == <<"1", "0", ".", "0", "0">>
V100 == <<"1", ".", "0", "0">>
StatusLines == {StatusLine(V1000, V1000, V100, V100, sr, fr) : sr, fr \in HexPairs}

\* The example of the specification: no commas, lower case, no delimiter.
SpecStatusText == <<"m", "v", " ", "1", "0", ".", "0", "0", " ", "p", "v", " ", "1", "0", ".", "0", "0", " ", "m", "c", " ", "1", ".", "0", "0", " ", "p", "c", " ", "1", ".", "0", "0", " ", "s", "r", "(", "1", "f", ")", " ", "f", "r", "(", "0", "a", ")">>
FiveFields == <<"M", "V", "(", "1", "0", ".", "0", "0", ")", ",", "P", "V", "(", "1", "0", ".", "0", "0", ")", ",", "M", "C", "(", "1", ".", "0", "0", ")", ",", "P", "C", "(", "1", ".", "0", "0", ")", ",", "S", "R", "(", "3", "0", ")", "\r">>
SevenFields == <<"M", "V", "(", "1", "0", ".", "0", "0", ")", ",", "P", "V", "(", "1", "0", ".", "0", "0", ")", ",", "M", "C", "(", "1", ".", "0", "0", ")", ",", "P", "C", "(", "1", ".", "0", "0", ")", ",", "S", "R", "(", "3", "0", ")", ",", "F", "R", "(", "0", "0", ")", ",", "X", "X", "(", "1", ")", "\r">>
BadFloatStatus == StatusLine(<<"1", ".", "2", ".", "3">>, V1000, V100, V100,
                             <<"0", "0">>, <<"0", "0">>)

Curated == {<<"X", "X", "X", "\r">>,
            <<"E", "0", "1", "\r">>,
            <<"o", "k", "\r">>,
            <<"O", "K", "\r", "\r">>,
            <<" ", "O", "K", "\r">>,
            <<"O", "K", "\n">>,
            <<"l", "o", "c", "\r">>,
            <<" ", "7", "\r">>,
            <<"1", "_", "0", "\r">>,
            <<"+", "3", "\r">>,
            <<"0", "x", "1", "F", "\r">>,
            <<"1", "e", "2", "\r">>,
            <<"1", "0", ".", "0", "0", "\r">>,
            <<".", "5", "\r">>,
            <<"5", ".", "\r">>,
            <<"1", ".", "2", ".", "3", "\r">>,
            <<"n", "a", "n", "\r">>,
            <<"-", "\r">>,
            <<"C", "0", "1", "\r">>,
            <<"G", "E", "N", "6", "0", "-", "2", "5", "\r">>,
            <<"A", "\r">>,
            <<HighByte, CR>>, <<"1", HighByte, CR>>}

Responses ==
    Generated \cup Curated \cup StatusLines
    \cup {SpecStatusText, SpecStatusText \o <<CR>>, FiveFields, SevenFields, BadFloatStatus}
    \cup UNION {Prefixes(s) : s \in IntAnswers \cup FloatAnswers \cup RemoteModes
                                    \cup OperationModes \cup OnOff}
    \cup Prefixes(StatusLine(V1000, V1000, V100, V100, <<"3", "0">>, <<"0", "0">>))

(***************************************************************************)
(* The state.                                                              *)
(***************************************************************************)
VARIABLES
    pc,         \* where the caller's thread is: idle, exchange, decode, sleep, done
    op,         \* the catalog operation in progress (or last finished)
    arg,        \* the value it was called with, None for an operation without one
    packet,     \* the frame _send built
    answer,     \* the bytes _bus_exchange returned
    outcome,    \* what the operation handed back to its caller
    exchanges,  \* the calls of _bus_exchange the operation has made
    elapsed,    \* the time since the previous exchange finished
    wake,       \* the reading of elapsed at which the sleep of select_address ends
    lastWasAdr, \* whether the previous exchange was select_address's
    \* GenesysTcpClient: one connection and the device at its other end
    tpc,        \* where _bus_exchange is: idle, drain, send, read
    xid,        \* the number of the exchange in progress (or last finished)
    rx,         \* the socket's receive buffer: bytes arrived and not yet read
    wire,       \* bytes the device has sent that have not arrived yet
    peerClosed, \* the device has closed the connection
    ret,        \* the local ret of _tcp_read
    remaining,  \* max_t - time(), never below 0: the to_wait of the next select
    response,   \* what the last finished _bus_exchange returned
    discarded,  \* what the drain of the exchange in progress returned
    \* GenesysSerialClient: one port and the device on the line
    spc,        \* where _bus_exchange is: idle, reset_input, reset_output, write, read
    sxid,       \* the number of the exchange in progress (or last finished)
    inbuf,      \* the port's input buffer: bytes received and not yet read
    outbuf,     \* the port's output buffer: frames written and not yet transmitted
    line,       \* bytes the device has sent that have not reached the port yet
    sret,       \* the line read_until has collected
    sresponse,  \* what the last finished _bus_exchange returned
    steps,      \* the calls on the port the exchange in progress has made, in order
    dropped,    \* what reset_input_buffer threw away in the exchange in progress
    \* one client object, from the call of its class to its finalization
    ckind,      \* the class called: serial or tcp (none before the call)
    cpc,        \* where the object is: unborn, a line of __init__, live, failed, gone
    cport,      \* the port argument of __init__
    fields,     \* the instance attributes assigned so far, as <<name, value>>
    handle,     \* the port or socket of the operating system: none, open, closed
    opens,      \* how many times a handle was opened
    closes,     \* how many times an open handle was closed
    initError,  \* the exception __init__ raised, "" if none
    delError,   \* the exception __del__ raised, "" if none
    memo        \* per watched (operation, response): its first outcome, and how often seen

protoVars == <<pc, op, arg, packet, answer, outcome, exchanges, elapsed, wake, lastWasAdr>>
tcpVars == <<tpc, xid, rx, wire, peerClosed, ret, remaining, response, discarded>>
serialVars == <<spc, sxid, inbuf, outbuf, line, sret, sresponse, steps, dropped>>
clientVars == <<ckind, cpc, cport, fields, handle, opens, closes, initError, delError>>
vars == <<protoVars, tcpVars, serialVars, clientVars, memo>>

\* sleep(0.1) in select_address, in tenths of a second.
SettleDelay == 1

NoOp == Op("", <<>>, "none", FALSE, {})

TcpInit ==
    /\ tpc = "idle"
    /\ xid = 0
    /\ rx = <<>>
    /\ wire = <<>>
    /\ peerClosed = FALSE
    /\ ret = <<>>
    /\ remaining = 0
    /\ response = <<>>
    /\ discarded = <<>>

ProtoInit ==
    /\ pc = "idle"
    /\ op = NoOp
    /\ arg = None
    /\ packet = <<>>
    /\ answer = <<>>
    /\ outcome = NoOutcome
    /\ exchanges = 0
    /\ elapsed = 0
    /\ wake = 0
    /\ lastWasAdr = FALSE

SerialInit ==
    /\ spc = "idle"
    /\ sxid = 0
    /\ inbuf = <<>>
    /\ outbuf = <<>>
    /\ line = <<>>
    /\ sret = <<>>
    /\ sresponse = <<>>
    /\ steps = <<>>
    /\ dropped = <<>>

ClientInit ==
    /\ ckind = "none"
    /\ cpc = "unborn"
    /\ cport = <<>>
    /\ fields = {}
    /\ handle = "none"
    /\ opens = 0
    /\ closes = 0
    /\ initError = ""
    /\ delError = ""

Init == ProtoInit /\ TcpInit /\ SerialInit /\ ClientInit /\ memo = [k \in {} |-> NoOutcome]

\* Protocol._send up to the exchange: the frame of a command and its value.
SendPacket(command, value) == MakePacket(Upper(command), value)

\* The record of what the watched operations have handed back: the first
\* outcome of <<name, result>> is kept, and the times it was seen, up to 2.
Remember(m, name, result, out) ==
    IF <<name, result>> \notin DOMAIN m THEN m
    ELSE IF m[<<name, result>>].n = 0
         THEN [m EXCEPT ![<<name, result>>] = [out |-> out, n |-> 1]]
         ELSE [m EXCEPT ![<<name, result>>] = [out |-> @.out, n |-> 2]]

\* A caller invokes an operation of the catalog with a value; the operation
\* goes through _set or _get_* into _send, which builds the frame.
Call ==
    /\ pc = "idle"
    /\ \E o \in Catalog : \E v \in (IF o.arg THEN ArgValues ELSE {None}) :
          /\ op' = o
          /\ arg' = v
          /\ packet' = SendPacket(o.token, v)
    /\ answer' = <<>>
    /\ outcome' = NoOutcome
    /\ exchanges' = 0
    /\ pc' = "exchange"
    /\ UNCHANGED <<elapsed, wake, lastWasAdr, tcpVars, serialVars, clientVars, memo>>

\* _send hands the frame to _bus_exchange, which returns the response.
BusExchange ==
    /\ pc = "exchange"
    /\ \E resp \in Responses : answer' = resp
    /\ exchanges' = exchanges + 1
    /\ elapsed' = 0
    /\ lastWasAdr' = (op.name = "select_address")
    /\ pc' = "decode"
    /\ UNCHANGED <<op, arg, packet, outcome, wake, tcpVars, serialVars, clientVars, memo>>

\* The operation decodes the answer; a failed check sends the frame again.
DecodeRetry ==
    /\ pc = "decode"
    /\ LET out == DecodeAnswer(op, answer)
           sleeps == op.name = "select_address" /\ out.k = "return"
       IN  /\ outcome' = out
           /\ pc' = IF out.k = "raise" THEN "exchange"
                    ELSE IF sleeps THEN "sleep" ELSE "done"
           /\ wake' = IF sleeps THEN elapsed + SettleDelay ELSE wake
    /\ memo' = Remember(memo, op.name, answer, DecodeAnswer(op, answer))
    /\ UNCHANGED <<op, arg, packet, answer, exchanges, elapsed, lastWasAdr, tcpVars, serialVars, clientVars>>

\* An operation that keeps the last value it returned in a field of the
\* client and hands it back when the answer does not decode.
DecodeCaching ==
    /\ pc = "decode"
    /\ LET now == DecodeAnswer(op, answer)
           kept == {f \in fields : f[1] = "last"}
           out == IF now.k = "raise" /\ kept # {}
                  THEN (CHOOSE f \in kept : TRUE)[2] ELSE now
           sleeps == op.name = "select_address" /\ out.k = "return"
       IN  /\ outcome' = out
           /\ pc' = IF sleeps THEN "sleep" ELSE "done"
           /\ wake' = IF sleeps THEN elapsed + SettleDelay ELSE wake
           /\ fields' = IF now.k = "return"
                        THEN {f \in fields : f[1] # "last"} \cup {<<"last", now>>}
                        ELSE fields
           /\ memo' = Remember(memo, op.name, answer, out)
    /\ UNCHANGED <<op, arg, packet, answer, exchanges, elapsed, lastWasAdr, tcpVars, serialVars,
                   ckind, cpc, cport, handle, opens, closes, initError, delError>>

\* The operation decodes the answer: it raises, returns, or (select_address,
\* once _set has returned) goes to sleep.
Decode ==
    /\ pc = "decode"
    /\ LET out == DecodeAnswer(op, answer)
           sleeps == op.name = "select_address" /\ out.k = "return"
       IN  /\ outcome' = out
           /\ pc' = IF sleeps THEN "sleep" ELSE "done"
           /\ wake' = IF sleeps THEN elapsed + SettleDelay ELSE wake
    /\ memo' = Remember(memo, op.name, answer, DecodeAnswer(op, answer))
    /\ UNCHANGED <<op, arg, packet, answer, exchanges, elapsed, lastWasAdr, tcpVars, serialVars, clientVars>>

\* sleep(0.1) is over and select_address returns.
SleepReturn ==
    /\ pc = "sleep"
    /\ elapsed >= wake
    /\ pc' = "done"
    /\ wake' = 0
    /\ UNCHANGED <<op, arg, packet, answer, outcome, exchanges, elapsed, lastWasAdr, tcpVars, serialVars, clientVars, memo>>

\* The outcome reaches the caller (the value is returned, or the exception
\* propagates) and the frames of the operation, with their locals, are gone.
Return ==
    /\ pc = "done"
    /\ pc' = "idle"
    /\ op' = NoOp
    /\ arg' = None
    /\ packet' = <<>>
    /\ answer' = <<>>
    /\ outcome' = NoOutcome
    /\ exchanges' = 0
    /\ UNCHANGED <<elapsed, wake, lastWasAdr, tcpVars, serialVars, clientVars, memo>>

\* A tenth of a second passes.
Tick ==
    /\ elapsed < MaxTime
    /\ elapsed' = elapsed + 1
    /\ UNCHANGED <<pc, op, arg, packet, answer, outcome, exchanges, wake, lastWasAdr, tcpVars, serialVars, clientVars, memo>>

Next ==
    \/ Call
    \/ BusExchange
    \/ Decode
    \/ SleepReturn
    \/ Return
    \/ Tick

Spec == Init /\ [][Next]_vars

(***************************************************************************)
(* Properties of the protocol engine, checked under Spec.                  *)
(***************************************************************************)
Finished == pc = "done"
Last(s) == s[Len(s)]
IsGenesysError(out, raw) == out.k = "raise" /\ out.exc = "GenesysError" /\ out.arg = raw

\* C1: an operation of the acknowledgement kind returns True if and only if
\* the transport's response is exactly the three bytes "OK\r"; for every
\* other response, the empty one included, it raises GenesysError with the
\* raw response as its argument.
C1_AckIffOk ==
    (pc \in {"sleep", "done"} /\ op.kind = "set") =>
        IF answer = <<"O", "K", "\r">>
        THEN outcome.k = "return" /\ outcome.val = TRUE
        ELSE IsGenesysError(outcome, answer)

C1_Witness ==
    /\ Finished
    /\ op.kind = "set"
    /\ answer = <<>>
    /\ IsGenesysError(outcome, <<>>)

\* The set of literals each enumerated read declares.
DeclaredSet(name) ==
    CASE name = "get_remote_mode" ->
            {<<"L", "O", "C", "\r">>, <<"R", "E", "M", "\r">>, <<"L", "L", "O", "\r">>}
      [] name = "get_operation_mode" ->
            {<<"C", "V", "\r">>, <<"C", "C", "\r">>, <<"O", "F", "F", "\r">>}
      [] name \in {"get_output", "get_foldback_protection", "get_autorestart_mode"} ->
            {<<"O", "N", "\r">>, <<"O", "F", "F", "\r">>}
EnumeratedReads == {"get_remote_mode", "get_operation_mode", "get_output",
                    "get_foldback_protection", "get_autorestart_mode"}

\* C2: an enumerated read succeeds (returning the response as text) if and
\* only if the raw response is a member of its declared set; any other
\* response raises GenesysError with the raw response.
C2_EnumeratedIffMember ==
    (Finished /\ op.name \in EnumeratedReads) =>
        IF answer \in DeclaredSet(op.name)
        THEN outcome.k = "return" /\ outcome.val = answer
        ELSE IsGenesysError(outcome, answer)

C2_Witness ==
    /\ Finished
    /\ op.name = "get_remote_mode"
    /\ answer = <<"X", "X", "X", "\r">>
    /\ IsGenesysError(outcome, answer)

HexPairValue(h) == 16 * DigitVal(h[1]) + DigitVal(h[2])

\* C3: get_power_status decodes the register fields sr(hh) and fr(hh) as
\* base-16 integers for every pair of hex digits hh, the digits a-f
\* included, and the text of the specification's example decodes to
\* {MV: 10.0, PV: 10.0, MC: 1.0, PC: 1.0, SR: 31, FR: 10}.
C3_HexRegisters ==
    (Finished /\ op.name = "get_power_status") =>
        /\ \A sr, fr \in HexPairs :
              answer = StatusLine(V1000, V1000, V100, V100, sr, fr) =>
                  /\ outcome.k = "return"
                  /\ outcome.val = [MV |-> PyFloat(10, 0), PV |-> PyFloat(10, 0),
                                    MC |-> PyFloat(1, 0), PC |-> PyFloat(1, 0),
                                    SR |-> PyInt(HexPairValue(sr)),
                                    FR |-> PyInt(HexPairValue(fr))]
        /\ answer = SpecStatusText =>
              /\ outcome.k = "return"
              /\ outcome.val = [MV |-> PyFloat(10, 0), PV |-> PyFloat(10, 0),
                                MC |-> PyFloat(1, 0), PC |-> PyFloat(1, 0),
                                SR |-> PyInt(31), FR |-> PyInt(10)]

CommaCount(s) == Cardinality({i \in 1..Len(s) : s[i] = ","})

\* C4: get_power_status either returns a complete record or raises
\* GenesysError: a response that does not split on commas into exactly six
\* fields, or a field that fails its conversion, raises GenesysError and
\* no other exception.
C4_StatusRecordOrGenesysError ==
    (Finished /\ op.name = "get_power_status") =>
        /\ outcome.k = "raise" => outcome.exc = "GenesysError"
        /\ CommaCount(answer) # 5 => IsGenesysError(outcome, answer)

TimedOut(raw) == raw = <<>> \/ Last(raw) # "\r"

\* C5: for every operation of the catalog, a timed-out response (empty, or
\* not ended by the delimiter) raises GenesysError; no value built from the
\* truncated bytes is returned.
C5_TimedOutRaises ==
    (Finished /\ TimedOut(answer)) => IsGenesysError(outcome, answer)

HasDigit(s) == \E i \in 1..Len(s) : s[i] \in Digits

\* C6: an integer read answered with the decimal text of n and the
\* delimiter returns n, a float read answered with the text of a float
\* returns that float; a response that is no number raises GenesysError
\* with the raw response, and no other exception reaches the caller.
C6_NumericRoundTrip ==
    (Finished /\ op.kind \in {"int", "float"}) =>
        /\ op.kind = "int" =>
              \A n \in RoundTripInts :
                  answer = IntStr(n) \o <<"\r">> => outcome = Returned(PyInt(n))
        /\ op.kind = "float" =>
              \A f \in RoundTripFloats :
                  answer = FloatStr(f.m, f.e) \o <<"\r">> => outcome = Returned(f)
        /\ outcome.k = "raise" => IsGenesysError(outcome, answer)
        /\ (outcome.k = "return" /\ outcome.val.t \in {"int", "float"}) => HasDigit(answer)
        /\ (\E i \in 1..Len(answer) : answer[i] \in {HighByte, "X", "K", "O"}) =>
              outcome.k = "raise"

C6_Witness ==
    /\ Finished
    /\ op.name = "get_filter"
    /\ answer = <<"1", "8", "\r">>
    /\ outcome = Returned(PyInt(18))

\* str(value) of the values callers pass, written out.
ValueText(v) ==
    CASE v = PyInt(0) -> <<"0">>
      [] v = PyInt(6) -> <<"6">>
      [] v = PyInt(31) -> <<"3", "1">>
      [] v = PyFloat(125, 1) -> <<"1", "2", ".", "5">>

\* C7: the frame handed to the transport is the upper-cased token, then a
\* space and str(value) if and only if a value was supplied (0 included),
\* then one "\r" as its last byte and nowhere else: splitting the frame at
\* the delimiter and at the first space recovers the token and the value
\* string.
C7_FrameShape ==
    pc # "idle" =>
        LET n == Len(packet)
            cr == FirstIndex(packet, "\r")
            sp == FirstIndex(packet, " ")
        IN  /\ n >= 1 /\ cr = n
            /\ \A i \in 1..Len(op.token) : op.token[i] \notin LowerSet
            /\ IF arg = None
               THEN sp = 0 /\ SubSeq(packet, 1, n - 1) = op.token
               ELSE /\ sp > 0
                    /\ SubSeq(packet, 1, sp - 1) = op.token
                    /\ SubSeq(packet, sp + 1, n - 1) = ValueText(arg)

C7_Witness ==
    /\ pc = "decode"
    /\ op.name = "select_address"
    /\ arg = PyInt(0)
    /\ packet = <<"A", "D", "R", " ", "0", "\r">>

\* C8: every operation calls _bus_exchange exactly once, whether it
\* succeeds or fails: none before the frame is built, one from the moment
\* the response is in hand until the outcome reaches the caller.
C8_ExactlyOneExchange ==
    /\ pc \in {"idle", "exchange"} => exchanges = 0
    /\ pc \in {"decode", "sleep", "done"} => exchanges = 1

C8_Witness ==
    /\ Finished
    /\ outcome.k = "raise"
    /\ exchanges = 1

\* C10: after a select_address exchange, whatever the device answered, the
\* next exchange does not begin before the settle delay has elapsed since
\* that exchange finished.
C10_SettleBeforeNextExchange ==
    [][(exchanges' = exchanges + 1 /\ lastWasAdr) => elapsed >= SettleDelay]_vars

\* C11: no ADR frame with an address outside 0..30 is ever handed to the
\* transport: once select_address has made its exchange, the value in the
\* frame it sent is an integer from 0 to 30, whatever it was called with.
C11_AddressInRange ==
    (pc \in {"decode", "sleep", "done"} /\ op.name = "select_address") =>
        /\ arg.t = "int"
        /\ arg.m \in 0..30
        /\ packet = <<"A", "D", "R", SP>> \o IntStr(arg.m) \o <<CR>>

\* C13: the text a string read returns never contains the carriage return,
\* for every response the read accepts.
C13_ReturnedTextHasNoDelimiter ==
    (Finished /\ op.kind = "string" /\ outcome.k = "return") =>
        \A i \in 1..Len(outcome.val) : outcome.val[i] # CR

(***************************************************************************)
(* GenesysTcpClient._bus_exchange and _tcp_read, with the device at the    *)
(* other end of the connection.  A byte on the wire is [c, x]: the         *)
(* character and the number of the exchange whose frame it answers; in     *)
(* the receive buffer it also carries fresh: whether it arrived during     *)
(* the exchange in progress, after that exchange's drain was over.         *)
(***************************************************************************)
DeviceBytes == {"a", CR}
DeviceAnswers == UNION {[1..n -> DeviceBytes] : n \in 0..MaxAnswer}

\* stop_byte of the _tcp_read in progress: None for the drain.
NoStop == "<None>"

\* _bus_exchange that reads the response without a stop byte.
StopByteNone == NoStop

StopByte == IF tpc = "read" THEN CR ELSE NoStop

\* _bus_exchange that sends without draining first.
TcpCallNoDrain ==
    /\ tpc = "idle"
    /\ xid < MaxExchanges
    /\ xid' = xid + 1
    /\ tpc' = "send"
    /\ ret' = <<>>
    /\ remaining' = 0
    /\ response' = <<>>
    /\ discarded' = <<>>
    /\ rx' = [i \in 1..Len(rx) |-> [rx[i] EXCEPT !.fresh = FALSE]]
    /\ UNCHANGED <<wire, peerClosed, protoVars, serialVars, clientVars, memo>>

\* _bus_exchange is called and enters _tcp_read(0.0): max_t = time().
\* What the receive buffer holds at this moment is no longer fresh.
TcpCall ==
    /\ tpc = "idle"
    /\ xid < MaxExchanges
    /\ xid' = xid + 1
    /\ tpc' = "drain"
    /\ ret' = <<>>
    /\ remaining' = 0
    /\ response' = <<>>
    /\ discarded' = <<>>
    /\ rx' = [i \in 1..Len(rx) |-> [rx[i] EXCEPT !.fresh = FALSE]]
    /\ UNCHANGED <<wire, peerClosed, protoVars, serialVars, clientVars, memo>>

\* The loop of _tcp_read breaks and r is returned: the drain's is dropped
\* and the frame comes next, the read's is the result of _bus_exchange.
TcpReadReturns(r) ==
    /\ ret' = <<>>
    /\ IF tpc = "drain"
       THEN tpc' = "send" /\ discarded' = r /\ UNCHANGED response
       ELSE tpc' = "idle" /\ response' = r /\ UNCHANGED discarded

\* select reports the socket readable and recv(1) returns a byte.
TcpRecv ==
    /\ tpc \in {"drain", "read"}
    /\ rx # <<>>
    /\ rx' = Tail(rx)
    /\ LET chunk == Head(rx)
       IN  IF chunk.c = StopByte
           THEN TcpReadReturns(Append(ret, chunk))
           ELSE ret' = Append(ret, chunk) /\ UNCHANGED <<tpc, response, discarded>>
    /\ UNCHANGED <<xid, wire, peerClosed, remaining, protoVars, serialVars, clientVars, memo>>

\* select reports the socket readable and recv(1) returns b"": the peer
\* has closed and nothing is left to read.
TcpRecvEof ==
    /\ tpc \in {"drain", "read"}
    /\ rx = <<>>
    /\ peerClosed
    /\ TcpReadReturns(ret)
    /\ UNCHANGED <<xid, rx, wire, peerClosed, remaining, protoVars, serialVars, clientVars, memo>>

\* A read that gives up what it has received when to_wait runs out.
TcpSelectTimeoutDrops ==
    /\ tpc \in {"drain", "read"}
    /\ rx = <<>>
    /\ ~peerClosed
    /\ remaining = 0
    /\ TcpReadReturns(<<>>)
    /\ UNCHANGED <<xid, rx, wire, peerClosed, remaining, protoVars, serialVars, clientVars, memo>>

\* select returns nothing: to_wait has run out with no byte to read.
TcpSelectTimeout ==
    /\ tpc \in {"drain", "read"}
    /\ rx = <<>>
    /\ ~peerClosed
    /\ remaining = 0
    /\ TcpReadReturns(ret)
    /\ UNCHANGED <<xid, rx, wire, peerClosed, remaining, protoVars, serialVars, clientVars, memo>>

\* socket.send(packet), then _tcp_read(self.timeout, b"\r") begins:
\* max_t = time() + timeout.  The device, unless it has closed, answers
\* the frame with some bytes, which travel back.
TcpSend ==
    /\ tpc = "send"
    /\ tpc' = "read"
    /\ ret' = <<>>
    /\ remaining' = Timeout
    /\ IF peerClosed THEN wire' = wire
       ELSE \E ans \in DeviceAnswers :
               wire' = wire \o [i \in 1..Len(ans) |-> [c |-> ans[i], x |-> xid]]
    /\ UNCHANGED <<xid, rx, peerClosed, response, discarded, protoVars, serialVars, clientVars, memo>>

\* A byte of the device arrives in the socket's receive buffer.
DeviceDeliver ==
    /\ wire # <<>>
    /\ rx' = Append(rx, [c |-> Head(wire).c, x |-> Head(wire).x,
                         fresh |-> tpc \in {"send", "read"}])
    /\ wire' = Tail(wire)
    /\ UNCHANGED <<tpc, xid, peerClosed, ret, remaining, response, discarded, protoVars, serialVars, clientVars, memo>>

\* The device closes the connection, having sent all it had to send.
PeerClose ==
    /\ ~peerClosed
    /\ wire = <<>>
    /\ peerClosed' = TRUE
    /\ UNCHANGED <<tpc, xid, rx, wire, ret, remaining, response, discarded, protoVars, serialVars, clientVars, memo>>

\* A tenth of a second passes on the clock _tcp_read reads.
TcpTick ==
    /\ remaining > 0
    /\ remaining' = remaining - 1
    /\ UNCHANGED <<tpc, xid, rx, wire, peerClosed, ret, response, discarded, protoVars, serialVars, clientVars, memo>>

TcpNext ==
    \/ TcpCall
    \/ TcpRecv
    \/ TcpRecvEof
    \/ TcpSelectTimeout
    \/ TcpSend
    \/ DeviceDeliver
    \/ PeerClose
    \/ TcpTick

SpecTcp == Init /\ [][TcpNext]_vars

(***************************************************************************)
(* Properties of the TCP transport, checked under SpecTcp.                 *)
(***************************************************************************)
\* C9 as stated: the response of an exchange never contains a byte the
\* device sent in answer to an earlier exchange, however late it arrives.
C9_NoEarlierAnswer ==
    tpc = "idle" => \A i \in 1..Len(response) : response[i].x = xid

\* C9 as amended: every byte of an exchange's response arrived after that
\* exchange's drain made its last, empty poll; what was in the receive
\* buffer before then is dropped by the drain.
C9_OnlyBytesArrivedAfterDrain ==
    tpc = "idle" =>
        \A i \in 1..Len(response) : response[i].fresh

C9_Witness ==
    /\ tpc = "idle"
    /\ xid = 2
    /\ discarded # <<>>
    /\ \A i \in 1..Len(discarded) : discarded[i].x = 1
    /\ response # <<>>
    /\ \A i \in 1..Len(response) : response[i].x = 2

\* C15: _tcp_read consumes no byte once its deadline has passed, in the
\* drain and in the response read alike: every byte it takes from the
\* receive buffer is taken while time remains before the deadline.
C15_NoByteAfterDeadline ==
    [][(tpc \in {"drain", "read"} /\ rx # <<>> /\ rx' = Tail(rx)) => remaining > 0]_vars

\* C16: a response _bus_exchange returns holds the delimiter at most once
\* and only as its last byte: nothing the device sent after the first
\* delimiter the read met is part of it.
C16_DelimiterOnlyLast ==
    tpc = "idle" =>
        \A i \in 1..Len(response) : response[i].c = CR => i = Len(response)

C16_Witness ==
    /\ tpc = "idle"
    /\ response # <<>>
    /\ response[Len(response)].c = CR
    /\ rx # <<>>
    /\ rx[1].x = xid

\* C17: when the response read ends with no byte to read and the peer
\* still connected, the deadline has expired, and _bus_exchange returns
\* to its caller exactly the bytes the read had received, none dropped or
\* added, whether or not there were any.
C17_DeadlineReturnsReceived ==
    [][(tpc = "read" /\ tpc' # "read" /\ rx = <<>> /\ ~peerClosed) =>
          /\ remaining = 0
          /\ tpc' = "idle"
          /\ response' = ret]_vars

C17_Witness ==
    /\ tpc = "idle"
    /\ xid >= 1
    /\ ~peerClosed
    /\ response # <<>>
    /\ response[Len(response)].c # CR
    /\ \A i \in 1..Len(response) : response[i].x = xid

(***************************************************************************)
(* GenesysSerialClient._bus_exchange, with the device on the serial line.  *)
(* A byte on the line is [c, x]: the character and the number of the       *)
(* exchange whose frame it answers; in the input buffer it also carries    *)
(* old: whether it was already there when the exchange in progress began.  *)
(***************************************************************************)
\* _bus_exchange is called.  What the input buffer holds at this moment
\* was there when the exchange started.
SerCall ==
    /\ spc = "idle"
    /\ sxid < MaxExchanges
    /\ sxid' = sxid + 1
    /\ spc' = "reset_input"
    /\ inbuf' = [i \in 1..Len(inbuf) |-> [inbuf[i] EXCEPT !.old = TRUE]]
    /\ sret' = <<>>
    /\ sresponse' = <<>>
    /\ steps' = <<>>
    /\ dropped' = <<>>
    /\ UNCHANGED <<outbuf, line, protoVars, tcpVars, clientVars, memo>>

\* _bus_exchange that leaves the input buffer as it finds it.
SerResetInputKeeps ==
    /\ spc = "reset_input"
    /\ spc' = "reset_output"
    /\ steps' = Append(steps, "reset_input_buffer")
    /\ UNCHANGED <<sxid, inbuf, outbuf, line, sret, sresponse, dropped, protoVars, tcpVars, clientVars, memo>>

\* self.socket.reset_input_buffer(): what has been received is thrown away.
SerResetInput ==
    /\ spc = "reset_input"
    /\ spc' = "reset_output"
    /\ dropped' = inbuf
    /\ inbuf' = <<>>
    /\ steps' = Append(steps, "reset_input_buffer")
    /\ UNCHANGED <<sxid, outbuf, line, sret, sresponse, protoVars, tcpVars, clientVars, memo>>

\* self.socket.reset_output_buffer(): what is waiting to be transmitted is
\* thrown away.
SerResetOutput ==
    /\ spc = "reset_output"
    /\ spc' = "write"
    /\ outbuf' = <<>>
    /\ steps' = Append(steps, "reset_output_buffer")
    /\ UNCHANGED <<sxid, inbuf, line, sret, sresponse, dropped, protoVars, tcpVars, clientVars, memo>>

\* self.socket.write(packet): the frame is in the output buffer, and
\* read_until(b"\r") begins with an empty line.
SerWrite ==
    /\ spc = "write"
    /\ spc' = "read"
    /\ outbuf' = Append(outbuf, sxid)
    /\ sret' = <<>>
    /\ steps' = Append(steps, "write")
    /\ UNCHANGED <<sxid, inbuf, line, sresponse, dropped, protoVars, tcpVars, clientVars, memo>>

\* read_until returns r, and _bus_exchange returns it to its caller.
SerReadReturns(r) ==
    /\ spc' = "idle"
    /\ sresponse' = r
    /\ sret' = <<>>
    /\ steps' = Append(steps, "read_until")

\* read_until: read(1) returns a byte; the delimiter ends the line.
SerRead ==
    /\ spc = "read"
    /\ inbuf # <<>>
    /\ inbuf' = Tail(inbuf)
    /\ LET c == Head(inbuf)
       IN  IF c.c = CR
           THEN SerReadReturns(Append(sret, c))
           ELSE sret' = Append(sret, c) /\ UNCHANGED <<spc, sresponse, steps>>
    /\ UNCHANGED <<sxid, outbuf, line, dropped, protoVars, tcpVars, clientVars, memo>>

\* read_until: the port's timeout runs out; the line read so far is returned.
SerReadTimeout ==
    /\ spc = "read"
    /\ SerReadReturns(sret)
    /\ UNCHANGED <<sxid, inbuf, outbuf, line, dropped, protoVars, tcpVars, clientVars, memo>>

\* The port transmits a frame of its output buffer; the device answers it
\* with some bytes, which travel back.
SerTransmit ==
    /\ outbuf # <<>>
    /\ outbuf' = Tail(outbuf)
    /\ \E ans \in DeviceAnswers :
          line' = line \o [i \in 1..Len(ans) |-> [c |-> ans[i], x |-> Head(outbuf)]]
    /\ UNCHANGED <<spc, sxid, inbuf, sret, sresponse, steps, dropped, protoVars, tcpVars, clientVars, memo>>

\* A byte of the device reaches the port's input buffer.
SerDeliver ==
    /\ line # <<>>
    /\ inbuf' = Append(inbuf, [c |-> Head(line).c, x |-> Head(line).x, old |-> FALSE])
    /\ line' = Tail(line)
    /\ UNCHANGED <<spc, sxid, outbuf, sret, sresponse, steps, dropped, protoVars, tcpVars, clientVars, memo>>

SerialNext ==
    \/ SerCall
    \/ SerResetInput
    \/ SerResetOutput
    \/ SerWrite
    \/ SerRead
    \/ SerReadTimeout
    \/ SerTransmit
    \/ SerDeliver

SpecSerial == Init /\ [][SerialNext]_vars

(***************************************************************************)
(* Properties of the serial transport, checked under SpecSerial.           *)
(***************************************************************************)
ExchangeOrder == <<"reset_input_buffer", "reset_output_buffer", "write", "read_until">>

StepsDone ==
    CASE spc = "reset_input" -> 0
      [] spc = "reset_output" -> 1
      [] spc = "write" -> 2
      [] spc = "read" -> 3
      [] OTHER -> IF sxid = 0 THEN 0 ELSE 4

\* C18: the calls of a serial exchange are reset_input_buffer,
\* reset_output_buffer, write, read_until, in this order and each once; the
\* frame of the exchange is in the output buffer or beyond only after both
\* resets; and no byte that was in the input buffer when the exchange
\* started is part of its response.
C18_ResetsBeforeWriteThenRead ==
    /\ steps = SubSeq(ExchangeOrder, 1, StepsDone)
    /\ ((\E i \in 1..Len(outbuf) : outbuf[i] = sxid)
          \/ (\E i \in 1..Len(line) : line[i].x = sxid)
          \/ (\E i \in 1..Len(inbuf) : inbuf[i].x = sxid)
          \/ (\E i \in 1..Len(sret) : sret[i].x = sxid)) =>
             (Len(steps) >= 3 /\ steps[1] = "reset_input_buffer"
                              /\ steps[2] = "reset_output_buffer")
    /\ \A i \in 1..Len(sret) : ~sret[i].old
    /\ spc = "idle" => \A i \in 1..Len(sresponse) : ~sresponse[i].old

C18_Witness ==
    /\ spc = "idle"
    /\ sxid = 2
    /\ steps = ExchangeOrder
    /\ dropped # <<>>
    /\ sresponse # <<>>
    /\ \A i \in 1..Len(sresponse) : sresponse[i].x = 2

(***************************************************************************)
(* One client object of either class: __init__ line by line, the catalog   *)
(* operations called on it, and __del__ when the last reference to it is   *)
(* gone.                                                                   *)
(***************************************************************************)
\* The port arguments tried: host:port, no colon, and a port not a number.
PortArgs == {<<"h", ":", "8">>, <<"h">>, <<"h", ":", "x">>}

\* What the transport answers the operations of this client.
ClientResponses == {<<>>, <<"1", CR>>, <<"O", "K", CR>>}

\* The (operation, response) pairs whose outcomes are recorded.
Watched == {<<"get_voltage", <<"1", CR>>>>, <<"get_voltage", <<>>>>}

HasField(name) == \E f \in fields : f[1] = name

\* GenesysSerialClient(port, baudrate) or GenesysTcpClient(port): the
\* object exists and __init__ begins.
Construct ==
    /\ cpc = "unborn"
    /\ \E k \in {"serial", "tcp"} : \E p \in PortArgs :
          /\ ckind' = k
          /\ cport' = p
          /\ cpc' = IF k = "serial" THEN "serial_open" ELSE "tcp_split"
    /\ UNCHANGED <<fields, handle, opens, closes, initError, delError,
                   protoVars, tcpVars, serialVars, memo>>

\* self.socket = Serial(port=port, baudrate=baudrate, timeout=timeout):
\* the port is opened.
SerialOpen ==
    /\ cpc = "serial_open"
    /\ handle' = "open"
    /\ opens' = opens + 1
    /\ fields' = fields \cup {<<"socket", "Serial">>}
    /\ cpc' = "assign"
    /\ UNCHANGED <<ckind, cport, closes, initError, delError,
                   protoVars, tcpVars, serialVars, memo>>

\* Serial(...) raises (no such port, port busy): nothing is assigned.
SerialOpenFails ==
    /\ cpc = "serial_open"
    /\ initError' = "SerialException"
    /\ cpc' = "failed"
    /\ UNCHANGED <<ckind, cport, fields, handle, opens, closes, delError,
                   protoVars, tcpVars, serialVars, memo>>

\* ip, tcp_port = port.split(":"): ValueError unless there are two parts.
TcpSplit ==
    /\ cpc = "tcp_split"
    /\ IF Len(Split(cport, ":")) = 2
       THEN cpc' = "tcp_socket" /\ UNCHANGED initError
       ELSE cpc' = "failed" /\ initError' = "ValueError"
    /\ UNCHANGED <<ckind, cport, fields, handle, opens, closes, delError,
                   protoVars, tcpVars, serialVars, memo>>

\* self.socket = socket.socket(...); self.socket.settimeout(timeout).
TcpSocket ==
    /\ cpc = "tcp_socket"
    /\ handle' = "open"
    /\ opens' = opens + 1
    /\ fields' = fields \cup {<<"socket", "socket">>}
    /\ cpc' = "tcp_connect"
    /\ UNCHANGED <<ckind, cport, closes, initError, delError,
                   protoVars, tcpVars, serialVars, memo>>

\* self.socket.connect((ip, int(tcp_port))): int() raises ValueError on a
\* port that is not a number; otherwise the connection is made.
TcpConnect ==
    /\ cpc = "tcp_connect"
    /\ IF ParseInt(Split(cport, ":")[2], 10).ok
       THEN cpc' = "assign" /\ UNCHANGED initError
       ELSE cpc' = "failed" /\ initError' = "ValueError"
    /\ UNCHANGED <<ckind, cport, fields, handle, opens, closes, delError,
                   protoVars, tcpVars, serialVars, memo>>

\* connect raises (refused, unreachable, timed out).
TcpConnectFails ==
    /\ cpc = "tcp_connect"
    /\ ParseInt(Split(cport, ":")[2], 10).ok
    /\ cpc' = "failed"
    /\ initError' = "OSError"
    /\ UNCHANGED <<ckind, cport, fields, handle, opens, closes, delError,
                   protoVars, tcpVars, serialVars, memo>>

\* self.port = port and self.baudrate = baudrate (serial) or
\* self.timeout = timeout (tcp): __init__ returns.
Assign ==
    /\ cpc = "assign"
    /\ fields' = fields \cup {<<"port", cport>>,
                               <<IF ckind = "serial" THEN "baudrate" ELSE "timeout", "arg">>}
    /\ cpc' = "live"
    /\ UNCHANGED <<ckind, cport, handle, opens, closes, initError, delError,
                   protoVars, tcpVars, serialVars, memo>>

\* The last reference to the object is gone (its user is done with it, or
\* __init__ raised) and __del__ runs: self.socket is read, AttributeError
\* if it was never assigned; the serial client closes the port if it
\* is_open, the tcp client calls close() on its socket.
Del ==
    /\ \/ cpc = "failed"
       \/ cpc = "live" /\ pc = "idle"
    /\ cpc' = "gone"
    /\ IF ~HasField("socket")
       THEN delError' = "AttributeError" /\ UNCHANGED <<handle, closes>>
       ELSE /\ UNCHANGED delError
            /\ handle' = "closed"
            /\ closes' = IF handle = "open" THEN closes + 1 ELSE closes
    /\ UNCHANGED <<ckind, cport, fields, opens, initError,
                   protoVars, tcpVars, serialVars, memo>>

\* A catalog operation is called on the constructed client.
ClientCall ==
    /\ cpc = "live"
    /\ Call

\* Its exchange, answered with one of ClientResponses.
ClientBusExchange ==
    /\ BusExchange
    /\ answer' \in ClientResponses

ClientNext ==
    \/ Construct
    \/ SerialOpen
    \/ SerialOpenFails
    \/ TcpSplit
    \/ TcpSocket
    \/ TcpConnect
    \/ TcpConnectFails
    \/ Assign
    \/ ClientCall
    \/ ClientBusExchange
    \/ Decode
    \/ SleepReturn
    \/ Return
    \/ Tick
    \/ Del

InitClient ==
    /\ ProtoInit /\ TcpInit /\ SerialInit /\ ClientInit
    /\ memo = [k \in Watched |-> [out |-> NoOutcome, n |-> 0]]

SpecClient == InitClient /\ [][ClientNext]_vars

(***************************************************************************)
(* Properties of the client object, checked under SpecClient.              *)
(***************************************************************************)
\* C12: the handle is opened at most once and closed exactly once when
\* the client is torn down, whether after normal use or after __init__
\* failed with the handle created or before it was assigned; __del__
\* raises nothing; and an operation only runs while the handle is open.
C12_ClosedOnceWithoutError ==
    /\ opens <= 1
    /\ closes <= opens
    /\ cpc = "gone" => (delError = "" /\ closes = opens /\ handle # "open")
    /\ pc # "idle" => handle = "open"

\* C14: a step of a catalog operation leaves the client's fields and its
\* handle as they were, and when an operation finishes on a response it
\* has finished on before, whatever was called and answered in between,
\* it hands back what it handed back the first time.
C14_NoCachedState ==
    [][/\ protoVars' # protoVars => UNCHANGED <<fields, handle, ckind, cport>>
       /\ (pc = "decode" /\ pc' # "decode" /\ <<op.name, answer>> \in DOMAIN memo) =>
             (memo[<<op.name, answer>>].n > 0 =>
                 outcome' = memo[<<op.name, answer>>].out)]_vars

C14_Witness ==
    /\ pc = "done"
    /\ op.name = "get_voltage"
    /\ answer = <<>>
    /\ outcome.k = "raise"
    /\ memo[<<"get_voltage", <<>>>>].n = 2
    /\ memo[<<"get_voltage", <<"1", CR>>>>].n >= 1
    /\ HasField("port")

====
